---- MODULE Spec2Model ----
(***************************************************************************)
(* Model of dbt/adapters/glue/gluedbapi/cursor.py: GlueCursor and          *)
(* GlueDictCursor.  One cursor object, driven by arbitrary sequences of    *)
(* calls; the remote statement executor is an environment that answers a   *)
(* submission with any payload of the shape the cursor reads.              *)
(*                                                                         *)
(* Strings the code inspects are sequences of one-character strings.       *)
(* Python's None is the "absent" value of each kind below.                 *)
(***************************************************************************)
EXTENDS Integers, Sequences, FiniteSets, TLC

(* ---------------------------- bounds ----------------------------------- *)
MaxRows == 2
MaxFetch == 4
MaxSql == 5
MaxPieces == 4

(* ------------------------ GlueCursorState ------------------------------ *)
WAITING == "WAITING"
RUNNING == "RUNNING"
AVAILABLE == "AVAILABLE"
CANCELLING == "CANCELLING"
CANCELLED == "CANCELLED"
ERROR == "ERROR"

GlueCursorState == {WAITING, RUNNING, AVAILABLE, CANCELLING, CANCELLED, ERROR}

(* ------------------------ generic helpers ------------------------------ *)
Range(s) == {s[i] : i \in 1..Len(s)}

\* s[k:] of Python, k a 0-based offset
Drop(s, k) == IF k >= Len(s) THEN <<>> ELSE SubSeq(s, k + 1, Len(s))

\* needle occurs in hay at 0-based offset k
OccursAt(hay, needle, k) ==
    /\ k >= 0
    /\ k + Len(needle) <= Len(hay)
    /\ SubSeq(hay, k + 1, k + Len(needle)) = needle

\* str.find: the lowest 0-based offset of needle in hay, -1 when there is none
Find(hay, needle) ==
    LET hits == {k \in 0..Len(hay) : OccursAt(hay, needle, k)}
    IN  IF hits = {} THEN -1
        ELSE CHOOSE k \in hits : \A j \in hits : k <= j

\* the "in" operator on strings
Contains(hay, needle) == Find(hay, needle) # -1

\* truth value of a Python int
IntTruthy(n) == n # 0

(* --------------------- the parsed payload (response) ------------------- *)
\* column names and cell values the remote side may report
NullValue == "null"

\* the "data" mapping of one result row: column name -> value, fields may
\* be missing
RowData ==
    { [c \in {"id", "name"} |-> IF c = "id" THEN "a" ELSE "b"],
      [c \in {"name"} |-> NullValue] }

RowLists == UNION { [1..n -> RowData] : n \in 0..MaxRows }

\* None, as the value of self.response
NoResponse ==
    [present |-> FALSE, hasDesc |-> FALSE, desc |-> <<>>,
     results |-> <<>>, rowcount |-> 0]

\* a JSON object as json.loads returns it
Payload(hasDesc, desc, results) ==
    [present |-> TRUE, hasDesc |-> hasDesc, desc |-> desc,
     results |-> results, rowcount |-> Len(results)]

\* the JSON objects the remote helper may print: every row list under a full
\* description, and the short ones under an empty or a missing description
Payloads ==
    { Payload(TRUE, <<"name", "id">>, rs) : rs \in RowLists }
    \cup { Payload(TRUE, <<>>, rs) : rs \in {r \in RowLists : Len(r) <= 1} }
    \cup { Payload(FALSE, <<>>, rs) : rs \in {r \in RowLists : Len(r) <= 1} }

\* truth value of self.response ("if self.response:")
Truthy(resp) == resp.present

(* ------------------------ results of a call ---------------------------- *)
\* a call either returns a value (absent = None) or raises
Ret(v) == [kind |-> "return", err |-> "", absent |-> FALSE, val |-> <<v>>]
RetNone == [kind |-> "return", err |-> "", absent |-> TRUE, val |-> <<>>]
Raise(e) == [kind |-> "raise", err |-> e, absent |-> TRUE, val |-> <<>>]

Returned(o) == o.kind = "return"
Raised(o) == o.kind = "raise"
ReturnedNone(o) == o.kind = "return" /\ o.absent
ReturnedValue(o) == o.kind = "return" /\ ~o.absent
ValueOf(o) == o.val[1]

(* ------------------ fetch index (self._it) ----------------------------- *)
\* None, as the value of self._it
NoIndex == -1

\* "not self._it": true of None and of 0
IndexFalsy(i) == i = NoIndex \/ i = 0

(* ------------------ accessors over the cached result ------------------- *)
\* GlueCursor.rowcount
Rowcount(resp) ==
    IF Truthy(resp) THEN Ret(resp.rowcount) ELSE RetNone

\* GlueCursor.columns: iterating a missing description list is a TypeError
Columns(resp) ==
    IF Truthy(resp)
    THEN IF resp.hasDesc THEN Ret(resp.desc) ELSE Raise("TypeError")
    ELSE RetNone

\* the "type" every description entry of the payload carries next to "name"
ColumnType == "string"

\* GlueCursor.description: [name, type] pairs, [] for a missing list
Description(resp) ==
    IF Truthy(resp)
    THEN Ret([i \in 1..Len(resp.desc) |-> <<resp.desc[i], ColumnType>>])
    ELSE RetNone

\* [item.get("data", {}).get(column, None) for column in self.columns]
Project(item, cols) ==
    [i \in 1..Len(cols) |->
        IF cols[i] \in DOMAIN item THEN item[cols[i]] ELSE NullValue]

\* fetchall without the "if self.closed" test
FetchAllBase_NoClosedCheck(isClosed, resp) ==
    IF ~Truthy(resp) THEN RetNone
    ELSE IF resp.results = <<>> THEN Ret(<<>>)
    ELSE IF ~resp.hasDesc THEN Raise("TypeError")
    ELSE Ret([i \in 1..Len(resp.results) |-> Project(resp.results[i], resp.desc)])

\* GlueCursor.fetchall; self.columns is only evaluated once per result row
FetchAllBase(isClosed, resp) ==
    IF isClosed THEN Raise("CursorClosed")
    ELSE IF ~Truthy(resp) THEN RetNone
    ELSE IF resp.results = <<>> THEN Ret(<<>>)
    ELSE IF ~resp.hasDesc THEN Raise("TypeError")
    ELSE Ret([i \in 1..Len(resp.results) |-> Project(resp.results[i], resp.desc)])

\* fetchone without the "if self.closed" test
FetchOneBase_NoClosedCheck(isClosed, resp, i) ==
    IF ~Truthy(resp) THEN [out |-> RetNone, it |-> i]
    ELSE LET i0 == IF IndexFalsy(i) THEN 0 ELSE i
         IN  IF i0 >= Len(resp.results) \/ ~resp.hasDesc
             THEN [out |-> RetNone, it |-> NoIndex]
             ELSE [out |-> Ret(Project(resp.results[i0 + 1], resp.desc)),
                   it |-> i0 + 1]

\* fetchone without "self._it = self._it + 1"
FetchOneBase_NoAdvance(isClosed, resp, i) ==
    IF isClosed THEN [out |-> Raise("CursorClosed"), it |-> i]
    ELSE IF ~Truthy(resp) THEN [out |-> RetNone, it |-> i]
    ELSE LET i0 == IF IndexFalsy(i) THEN 0 ELSE i
         IN  IF i0 >= Len(resp.results) \/ ~resp.hasDesc
             THEN [out |-> RetNone, it |-> NoIndex]
             ELSE [out |-> Ret(Project(resp.results[i0 + 1], resp.desc)),
                   it |-> i0]

\* GlueCursor.fetchone: the call's result and the new value of self._it
FetchOneBase(isClosed, resp, i) ==
    IF isClosed THEN [out |-> Raise("CursorClosed"), it |-> i]
    ELSE IF ~Truthy(resp) THEN [out |-> RetNone, it |-> i]
    ELSE LET i0 == IF IndexFalsy(i) THEN 0 ELSE i
         IN  IF i0 >= Len(resp.results) \/ ~resp.hasDesc
             THEN [out |-> RetNone, it |-> NoIndex]
             ELSE [out |-> Ret(Project(resp.results[i0 + 1], resp.desc)),
                   it |-> i0 + 1]

\* truth value of what fetchone returned ("if not item")
ItemTruthy(o) == ReturnedValue(o) /\ ValueOf(o) # <<>>

\* data = {}; for i, c in enumerate(self.columns): data[c] = item[i]
DictOf(cols, item) ==
    [c \in Range(cols) |->
        item[CHOOSE i \in 1..Len(cols) :
                /\ cols[i] = c
                /\ \A j \in 1..Len(cols) : cols[j] = c => j <= i]]

\* GlueDictCursor.fetchone, given what super().fetchone() did
FetchOneDict(resp, base) ==
    IF Raised(base) THEN base
    ELSE IF ~ItemTruthy(base) THEN RetNone
    ELSE Ret(DictOf(resp.desc, ValueOf(base)))

\* GlueDictCursor.fetchall, given what super().fetchall() did: iterating
\* None is a TypeError
FetchAllDict(resp, base) ==
    IF Raised(base) THEN base
    ELSE IF ReturnedNone(base) THEN Raise("TypeError")
    ELSE Ret([k \in 1..Len(ValueOf(base)) |-> DictOf(resp.desc, ValueOf(base)[k])])

\* GlueCursor.__next__, given what self.fetchone() did
NextOf(one) ==
    IF Raised(one) THEN one
    ELSE IF ~(ReturnedValue(one) /\ ValueOf(one) # <<>>) THEN Raise("StopIteration")
    ELSE one

(* ------------------ SQL text handling ---------------------------------- *)
NL == "\n"
HeaderOpen == <<"/", "*">>
HeaderClose == <<"*", "/", NL>>
PysparkMarker == <<"-", "-", "p", "y", "s", "p", "a", "r", "k">>
WrapPrefix ==
    <<"S", "q", "l", "W", "r", "a", "p", "p", "e", "r", "2", ".",
      "e", "x", "e", "c", "u", "t", "e", "(", "'", "'", "'">>
WrapSuffix == <<"'", "'", "'", ")">>

\* sql[0:2] == "/*"
StartsWithHeader(sql) == Len(sql) >= 2 /\ SubSeq(sql, 1, 2) = HeaderOpen

\* GlueCursor.remove_comments_header: str.index raises ValueError when the
\* closing "*/\n" is not found
RemoveCommentsHeader(sql) ==
    IF StartsWithHeader(sql)
    THEN LET end == Find(sql, HeaderClose)
         IN  IF end = -1
             THEN [ok |-> FALSE, sql |-> <<>>]
             ELSE [ok |-> TRUE, sql |-> Drop(sql, end + 3)]
    ELSE [ok |-> TRUE, sql |-> sql]

\* str.replace(old, new): every non-overlapping occurrence, left to right
RECURSIVE Replace(_, _, _)
Replace(s, old, new) ==
    LET k == Find(s, old)
    IN  IF k = -1 \/ old = <<>> THEN s
        ELSE SubSeq(s, 1, k) \o new \o Replace(Drop(s, k + Len(old)), old, new)

\* str.split("\n")
RECURSIVE SplitLines(_)
SplitLines(s) ==
    LET k == Find(s, <<NL>>)
    IN  IF k = -1 THEN <<s>>
        ELSE <<SubSeq(s, 1, k)>> \o SplitLines(Drop(s, k + 1))

\* "\n".join(lines)
RECURSIVE JoinLines(_)
JoinLines(ls) ==
    IF Len(ls) = 0 THEN <<>>
    ELSE IF Len(ls) = 1 THEN ls[1]
    ELSE ls[1] \o <<NL>> \o JoinLines(Tail(ls))

IsBlankChar(ch) == ch \in {" ", "\t"}
WhitespaceOnly(line) == \A i \in 1..Len(line) : IsBlankChar(line[i])

\* the leading run of blanks and tabs of a line
LeadingWhitespace(line) ==
    LET n == CHOOSE k \in 0..Len(line) :
                 /\ \A i \in 1..k : IsBlankChar(line[i])
                 /\ (k < Len(line) => ~IsBlankChar(line[k + 1]))
    IN  SubSeq(line, 1, n)

IsPrefix(p, s) == Len(p) <= Len(s) /\ SubSeq(s, 1, Len(p)) = p

\* the longest prefix shared by every sequence of the set
CommonPrefix(S) ==
    IF S = {} THEN <<>>
    ELSE LET first == CHOOSE x \in S : TRUE
             n == CHOOSE k \in 0..Len(first) :
                      /\ \A x \in S : IsPrefix(SubSeq(first, 1, k), x)
                      /\ \A j \in (k + 1)..Len(first) :
                             \E x \in S : ~IsPrefix(SubSeq(first, 1, j), x)
         IN  SubSeq(first, 1, n)

\* textwrap.dedent: whitespace-only lines become empty, then the margin
\* common to the remaining non-empty lines is removed from every line
Dedent(text) ==
    LET lines == SplitLines(text)
        norm == [i \in 1..Len(lines) |->
                    IF WhitespaceOnly(lines[i]) THEN <<>> ELSE lines[i]]
        indents == {LeadingWhitespace(norm[i]) :
                        i \in {j \in 1..Len(norm) : norm[j] # <<>>}}
        margin == CommonPrefix(indents)
    IN  JoinLines([i \in 1..Len(norm) |->
                    IF margin # <<>> /\ IsPrefix(margin, norm[i])
                    THEN Drop(norm[i], Len(margin))
                    ELSE norm[i]])

\* execute that wraps every text, script or not
BuildCode_WrapsScript(sql) ==
    WrapPrefix \o sql \o WrapSuffix

\* the code text execute submits for the header-stripped sql
BuildCode(sql) ==
    IF Contains(sql, PysparkMarker)
    THEN Dedent(Replace(sql, PysparkMarker, <<>>))
    ELSE WrapPrefix \o sql \o WrapSuffix

(* ------------------ the remote executor's answer ----------------------- *)
\* one newline-separated fragment of Output.Data.TextPlain: a complete JSON
\* text (value = what json.loads gives; NoResponse for JSON null), text that
\* is not JSON, or an empty line
JsonFrag(v) == [kind |-> "json", value |-> v]
NoiseFrag == [kind |-> "noise", value |-> NoResponse]
BlankFrag == [kind |-> "blank", value |-> NoResponse]

\* str.strip() on the fragments: leading and trailing empty lines go
RECURSIVE StripLeft(_)
StripLeft(fs) ==
    IF fs # <<>> /\ fs[1].kind = "blank" THEN StripLeft(Tail(fs)) ELSE fs

RECURSIVE StripRight(_)
StripRight(fs) ==
    IF fs # <<>> /\ fs[Len(fs)].kind = "blank"
    THEN StripRight(SubSeq(fs, 1, Len(fs) - 1))
    ELSE fs

Strip(fs) == StripRight(StripLeft(fs))

\* json.loads of a whole text: succeeds on exactly one JSON text
JsonLoads(fs) ==
    IF Len(fs) = 1 /\ fs[1].kind = "json"
    THEN [ok |-> TRUE, value |-> fs[1].value]
    ELSE [ok |-> FALSE, value |-> NoResponse]

\* text.strip().split("\n")[0]: the first fragment, "" for an empty text
FirstChunk(fs) ==
    IF Strip(fs) = <<>> THEN <<>> ELSE <<Strip(fs)[1]>>

NotAView == <<"i", "s", " ", "n", "o", "t", " ", "a", " ", "v", "i", "e", "w">>

\* error texts the remote side may report in Output.ErrorValue
ErrorTexts ==
    { <<>>,
      <<"x">>,
      NotAView,
      <<"x">> \o NotAView,
      NotAView \o <<"x">>,
      <<"x", " ">> \o NotAView \o <<" ", "y">> }

\* TextPlain payloads the remote side may report
TextPlains ==
    { <<>>, <<NoiseFrag>>, <<BlankFrag>>, <<NoiseFrag, JsonFrag(NoResponse)>>,
      <<JsonFrag(NoResponse)>> }
    \cup { <<JsonFrag(p)>> : p \in Payloads }
    \cup { <<BlankFrag, JsonFrag(p), NoiseFrag>> :
               p \in {q \in Payloads : q.desc # <<>> /\ Len(q.results) <= 1} }

\* what statement.execute() did: raised, or returned a payload
\* {Statement: {State, Output: {Status, Data: {TextPlain}, ErrorValue}}}
Remote(raises, hasState, st, status, hasText, text, hasErr, err) ==
    [raises |-> raises, hasState |-> hasState, state |-> st, status |-> status,
     hasText |-> hasText, text |-> text, hasErr |-> hasErr, err |-> err]

NoRemote == Remote(FALSE, FALSE, "", "", FALSE, <<>>, FALSE, <<>>)

RemoteAnswers ==
    { Remote(TRUE, FALSE, "", "", FALSE, <<>>, FALSE, <<>>) }
    \cup { NoRemote }
    \cup { Remote(FALSE, TRUE, st, "", FALSE, <<>>, FALSE, <<>>) :
               st \in GlueCursorState \ {AVAILABLE} }
    \cup { Remote(FALSE, TRUE, AVAILABLE, "ok", TRUE, t, FALSE, <<>>) :
               t \in TextPlains }
    \cup { Remote(FALSE, TRUE, AVAILABLE, "ok", FALSE, <<>>, FALSE, <<>>) }
    \cup { Remote(FALSE, TRUE, AVAILABLE, "error", FALSE, <<>>, TRUE, e) :
               e \in ErrorTexts }
    \cup { Remote(FALSE, TRUE, AVAILABLE, "error", FALSE, <<>>, FALSE, <<>>) }

\* response.get("Statement", {}).get("State", GlueCursorState.WAITING)
StateOf(remote) == IF remote.hasState THEN remote.state ELSE WAITING

\* execute, lines 83-91: status "ok".  The handler of the first parse failure
\* strips the payload again (AttributeError on a missing payload) and the
\* handler of the second failure parses chunks[0] once more inside the log
\* call, which raises the same decode error
ParseOutput(remote, resp0) ==
    IF ~remote.hasText THEN [out |-> Raise("AttributeError"), response |-> resp0]
    ELSE LET whole == JsonLoads(Strip(remote.text))
             first == JsonLoads(FirstChunk(remote.text))
         IN  IF whole.ok
             THEN [out |-> RetNone, response |-> whole.value]
             ELSE IF first.ok
             THEN [out |-> RetNone, response |-> first.value]
             ELSE [out |-> Raise("JSONDecodeError"), response |-> resp0]

\* execute, lines 92-97: status other than "ok"; the test is the truth value
\* of str.find
ErrorOutput(remote) ==
    IF ~remote.hasErr THEN Raise("AttributeError")
    ELSE IF IntTruthy(Find(remote.err, NotAView)) THEN RetNone
    ELSE Raise("DatabaseException")

\* "return self.response"
RetResponse(resp) == IF resp.present THEN Ret(resp) ELSE RetNone

\* _pre without "self.response = None"
Pre_KeepsResponse(resp) == [it |-> NoIndex, running |-> TRUE, response |-> resp]

\* GlueCursor._pre: self._it = None, self._is_running = True,
\* self.response = None
Pre(resp) == [it |-> NoIndex, running |-> TRUE, response |-> NoResponse]

\* _post without "self._is_running = False"
Post_KeepsRunning == [it |-> NoIndex, running |-> TRUE]

\* GlueCursor._post: self._it = None, self._is_running = False
Post == [it |-> NoIndex, running |-> FALSE]

\* execute that lets go of the running flag when the statement has not ended
Classify_NonTerminalResets(remote, oldState, resp0) ==
    IF remote.raises
    THEN [out |-> Raise("RemoteError"), response |-> resp0,
          state |-> oldState, running |-> FALSE]
    ELSE IF StateOf(remote) = AVAILABLE
    THEN IF remote.status = "ok"
         THEN LET p == ParseOutput(remote, resp0)
              IN  [out |-> IF Raised(p.out) THEN p.out ELSE RetResponse(p.response),
                   response |-> p.response, state |-> AVAILABLE, running |-> Post.running]
         ELSE [out |-> ErrorOutput(remote), response |-> resp0,
               state |-> AVAILABLE, running |-> Post.running]
    ELSE IF StateOf(remote) = ERROR
    THEN [out |-> Raise("InternalException"), response |-> resp0,
          state |-> "error", running |-> Post.running]
    ELSE IF StateOf(remote) \in {CANCELLED, CANCELLING}
    THEN [out |-> Raise("DatabaseException"), response |-> resp0,
          state |-> StateOf(remote), running |-> Post.running]
    ELSE [out |-> RetNone, response |-> resp0,
          state |-> StateOf(remote), running |-> FALSE]

\* execute, lines 76-107, after _pre() left resp0 as the response: the call's
\* result and the new response, state and running flag, for the remote answer
Classify(remote, oldState, resp0) ==
    IF remote.raises
    THEN [out |-> Raise("RemoteError"), response |-> resp0,
          state |-> oldState, running |-> TRUE]
    ELSE IF StateOf(remote) = AVAILABLE
    THEN IF remote.status = "ok"
         THEN LET p == ParseOutput(remote, resp0)
              IN  [out |-> IF Raised(p.out) THEN p.out ELSE RetResponse(p.response),
                   response |-> p.response, state |-> AVAILABLE, running |-> Post.running]
         ELSE [out |-> ErrorOutput(remote), response |-> resp0,
               state |-> AVAILABLE, running |-> Post.running]
    ELSE IF StateOf(remote) = ERROR
    THEN [out |-> Raise("InternalException"), response |-> resp0,
          state |-> "error", running |-> Post.running]
    ELSE IF StateOf(remote) \in {CANCELLED, CANCELLING}
    THEN [out |-> Raise("DatabaseException"), response |-> resp0,
          state |-> StateOf(remote), running |-> Post.running]
    ELSE [out |-> RetNone, response |-> resp0,
          state |-> StateOf(remote), running |-> TRUE]

(* ------------------ inputs of execute ---------------------------------- *)
\* "/*h*/\nsql": a leading comment header
SqlHeader == <<"/", "*", "h", "*", "/", NL, "s", "q", "l">>
\* "/*h*/": a header whose "*/" is not followed by a newline
SqlOpenHeader == <<"/", "*", "h", "*", "/">>
\* "--pyspark\n  x\n  y": a script
SqlScript == PysparkMarker \o <<NL, " ", " ", "x", NL, " ", " ", "y">>

SqlInputs == {SqlHeader, SqlOpenHeader, SqlScript}

\* every text of at most MaxSql characters over the characters of a comment
\* header and one other character
SqlChars == {"/", "*", NL, "s"}
HeaderTexts == UNION {[1..n -> SqlChars] : n \in 0..MaxSql}

\* texts put together from at most MaxPieces pieces: the two halves of the
\* script marker, a closed header, a letter, a blank and a newline
MarkerHead == <<"-", "-", "p", "y", "s">>
MarkerTail == <<"p", "a", "r", "k">>
ScriptPieces ==
    {MarkerHead, MarkerTail, <<"/", "*", "*", "/", NL>>, <<"s">>, <<" ">>, <<NL>>}
RECURSIVE Concat(_)
Concat(ps) == IF ps = <<>> THEN <<>> ELSE Head(ps) \o Concat(Tail(ps))
ScriptTexts == {Concat(ps) : ps \in UNION {[1..n -> ScriptPieces] : n \in 0..MaxPieces}}

SqlTexts == HeaderTexts \cup ScriptTexts

\* the answers used when the subject is the text execute submits: the
\* statement ends in ERROR, or is still RUNNING
SqlAnswers ==
    {r \in RemoteAnswers : ~r.raises /\ r.hasState /\ r.state \in {ERROR, RUNNING}}

(* ------------------ the cursor ----------------------------------------- *)
VARIABLES
    isDict,        \* the object is a GlueDictCursor
    closed,        \* self._closed
    is_running,    \* self._is_running
    response,      \* self.response
    it,            \* self._it
    state,         \* self.state
    statement,     \* self.statement: unset until execute creates one
    statement_id,  \* self.statement_id
    sql,           \* self.sql
    code,          \* self.code
    submitted,     \* the last call reached statement.execute()
    lastRemote,    \* what the last statement.execute() answered
    lastOp,        \* the last call made on the cursor
    outcome,       \* what that call returned or raised
    fetchLog,      \* results of the GlueCursor.fetchone calls on the current result
    priorResult,   \* the last submitting execute was called with a cached result
    sqlArg         \* the sql argument of execute: the text the call examines

cursorVars ==
    <<closed, is_running, response, it, state, statement, statement_id, sql, code>>

vars ==
    <<isDict, closed, is_running, response, it, state, statement, statement_id,
      sql, code, submitted, lastRemote, lastOp, outcome, fetchLog,
                   priorResult, sqlArg>>

NoStatement == [set |-> FALSE, code |-> <<>>]

\* GlueCursor.__init__ / GlueDictCursor.__init__
Init ==
    /\ isDict \in BOOLEAN
    /\ closed = FALSE
    /\ is_running = FALSE
    /\ response = NoResponse
    /\ it = NoIndex
    /\ state = "None"
    /\ statement = NoStatement
    /\ statement_id = "None"
    /\ sql = <<>>
    /\ code = <<>>
    /\ submitted = FALSE
    /\ lastRemote = NoRemote
    /\ lastOp = "init"
    /\ outcome = RetNone
    /\ fetchLog = <<>>
    /\ priorResult = FALSE
    /\ sqlArg = <<>>

\* a call that raised before touching the cursor
Rejected(op, e) ==
    /\ lastOp' = op
    /\ outcome' = Raise(e)
    /\ submitted' = FALSE
    /\ UNCHANGED <<isDict, cursorVars, lastRemote, fetchLog,
                   priorResult, sqlArg>>

\* a call that only reads the cursor
ReadOnly(op, o) ==
    /\ lastOp' = op
    /\ outcome' = o
    /\ submitted' = FALSE
    /\ UNCHANGED <<isDict, cursorVars, lastRemote, fetchLog,
                   priorResult, sqlArg>>

\* execute, lines 65-107, for the header-stripped text newSql: _pre() runs,
\* the code is built and submitted, and the remote answer is classified
Submit(sqlIn, newSql, newCode, remote) ==
    /\ LET pre == Pre(response)
           r == Classify(remote, state, pre.response)
       IN  /\ sqlArg' = sqlIn
           /\ sql' = newSql
           /\ code' = newCode
           /\ statement' = [set |-> TRUE, code |-> newCode]
           /\ submitted' = TRUE
           /\ lastRemote' = remote
           /\ state' = r.state
           /\ is_running' = r.running
           /\ response' = r.response
           /\ it' = pre.it
           /\ fetchLog' = <<>>
           /\ priorResult' = Truthy(response)
           /\ lastOp' = "execute"
           /\ outcome' = r.out
           /\ UNCHANGED <<isDict, closed, statement_id>>

\* execute, line 63: remove_comments_header raised ValueError on sqlIn
HeaderNotClosed(sqlIn) ==
    /\ sqlArg' = sqlIn
    /\ lastOp' = "execute"
    /\ outcome' = Raise("ValueError")
    /\ submitted' = FALSE
    /\ UNCHANGED <<isDict, cursorVars, lastRemote, fetchLog, priorResult>>

\* execute, lines 63-107, called with sqlIn on an open, idle cursor, the
\* remote side answering a submission with any of answers
ExecuteText(sqlIn, answers) ==
    LET header == RemoveCommentsHeader(sqlIn)
        newCode == BuildCode(header.sql)
    IN  IF ~header.ok
        THEN HeaderNotClosed(sqlIn)
        ELSE \E remote \in answers : Submit(sqlIn, header.sql, newCode, remote)

\* execute without the "if self._is_running" test
Execute_NoRunningCheck ==
    IF closed THEN Rejected("execute", "CursorClosed")
    ELSE \E sqlIn \in SqlInputs : ExecuteText(sqlIn, RemoteAnswers)

\* GlueCursor.execute(sql), the remote side answering a submission with any
\* of RemoteAnswers
Execute ==
    IF closed THEN Rejected("execute", "CursorClosed")
    ELSE IF is_running THEN Rejected("execute", "CursorAlreadyRunning")
    ELSE \E sqlIn \in SqlInputs : ExecuteText(sqlIn, RemoteAnswers)

\* what self.fetchone() does on this object
FetchOneOf(dict, base, resp) ==
    IF dict THEN FetchOneDict(resp, base) ELSE base

\* what self.fetchall() does on this object
FetchAllOf(dict, base, resp) ==
    IF dict THEN FetchAllDict(resp, base) ELSE base

\* the effect of one GlueCursor.fetchone call made on behalf of op
FetchStep(op) ==
    LET f == FetchOneBase(closed, response, it)
        logged == ~closed /\ Truthy(response)
    IN  /\ logged => Len(fetchLog) < MaxFetch
        /\ it' = f.it
        /\ fetchLog' = IF logged THEN Append(fetchLog, f.out) ELSE fetchLog
        /\ lastOp' = op
        /\ outcome' = LET one == FetchOneOf(isDict, f.out, response)
                       IN  IF op = "next" THEN NextOf(one) ELSE one
        /\ UNCHANGED <<isDict, closed, is_running, response, state, statement,
                       statement_id, sql, code, lastRemote,
                   priorResult, sqlArg>>
        /\ submitted' = FALSE

\* fetchone()
FetchOne == FetchStep("fetchone")

\* __next__()
IterNext == FetchStep("next")

\* fetchall that rewinds the fetch index
FetchAll_ResetsIndex ==
    /\ lastOp' = "fetchall"
    /\ outcome' = FetchAllOf(isDict, FetchAllBase(closed, response), response)
    /\ submitted' = FALSE
    /\ it' = NoIndex
    /\ UNCHANGED <<isDict, closed, is_running, response, state, statement,
                   statement_id, sql, code, lastRemote, fetchLog,
                   priorResult, sqlArg>>

\* fetchall()
FetchAll ==
    ReadOnly("fetchall", FetchAllOf(isDict, FetchAllBase(closed, response), response))

\* the rowcount property
GetRowcount == ReadOnly("rowcount", Rowcount(response))

\* the columns property
GetColumns == ReadOnly("columns", Columns(response))

\* description()
GetDescription == ReadOnly("description", Description(response))

\* get_response(): self.statement is not an attribute before the first
\* execute; the status refresh is the remote side's and may fail
GetResponse ==
    IF ~statement.set THEN ReadOnly("get_response", Raise("AttributeError"))
    ELSE \E ok \in BOOLEAN :
            ReadOnly("get_response",
                     IF ok THEN Ret(sql) ELSE Raise("RemoteError"))

\* close that toggles the flag instead of rejecting a second close
Close_Reopens ==
    /\ closed' = ~closed
    /\ lastOp' = "close"
    /\ outcome' = RetNone
    /\ UNCHANGED <<isDict, is_running, response, it, state, statement,
                   statement_id, sql, code, lastRemote, fetchLog,
                   priorResult, sqlArg>>
    /\ submitted' = FALSE

\* close()
Close ==
    IF closed THEN Rejected("close", "CursorAlreadyClosed")
    ELSE /\ closed' = TRUE
         /\ lastOp' = "close"
         /\ outcome' = RetNone
         /\ UNCHANGED <<isDict, is_running, response, it, state, statement,
                        statement_id, sql, code, lastRemote, fetchLog,
                        priorResult, sqlArg>>
         /\ submitted' = FALSE

Next ==
    \/ Execute
    \/ FetchOne
    \/ IterNext
    \/ FetchAll
    \/ GetRowcount
    \/ GetColumns
    \/ GetDescription
    \/ GetResponse
    \/ Close

Spec == Init /\ [][Next]_vars

\* execute as a function of its text: a GlueCursor is constructed and execute
\* is called on it with one text of SqlTexts
SqlInit ==
    /\ isDict = FALSE
    /\ closed = FALSE
    /\ is_running = FALSE
    /\ response = NoResponse
    /\ it = NoIndex
    /\ state = "None"
    /\ statement = NoStatement
    /\ statement_id = "None"
    /\ sql = <<>>
    /\ code = <<>>
    /\ submitted = FALSE
    /\ lastRemote = NoRemote
    /\ lastOp = "init"
    /\ outcome = RetNone
    /\ fetchLog = <<>>
    /\ priorResult = FALSE
    /\ sqlArg \in SqlTexts

SqlExecute ==
    IF closed THEN Rejected("execute", "CursorClosed")
    ELSE IF is_running THEN Rejected("execute", "CursorAlreadyRunning")
    ELSE ExecuteText(sqlArg, SqlAnswers)

SqlNext == SqlExecute

SqlSpec == SqlInit /\ [][SqlNext]_vars

(* ------------------ properties ----------------------------------------- *)
\* the last call was an execute that got as far as submitting, so that
\* lastRemote is the answer it classified
ExecuteAnswered ==
    /\ lastOp = "execute"
    /\ ~(Raised(outcome) /\
         outcome.err \in {"CursorClosed", "CursorAlreadyRunning", "ValueError"})

\* C1: on a closed cursor execute, fetchone and fetchall raise CursorClosed,
\* whatever the running flag, cached result and fetch index are, and the
\* rejected call leaves every attribute of the cursor as it was.
C1_ClosedRejectsExecuteAndFetch ==
    [][closed /\ lastOp' \in {"execute", "fetchone", "fetchall"}
         => /\ outcome' = Raise("CursorClosed")
            /\ UNCHANGED cursorVars]_vars

\* a fetchone was rejected on a closed cursor that holds a cached result and
\* a fetch index in the middle of it
C1_Witness ==
    /\ closed
    /\ lastOp = "fetchone"
    /\ outcome = Raise("CursorClosed")
    /\ Truthy(response)
    /\ it > 0

\* C2: once closed the cursor stays closed under every operation, and every
\* later close raises CursorAlreadyClosed.
C2_ClosedIsPermanent ==
    [][closed => /\ closed'
                 /\ (lastOp' = "close" => outcome' = Raise("CursorAlreadyClosed"))]_vars

\* a second close was rejected
C2_Witness ==
    /\ closed
    /\ lastOp = "close"
    /\ outcome = Raise("CursorAlreadyClosed")

\* C3 as stated: every public operation called on a closed cursor raises.
C3_EveryOperationRejected ==
    [][closed => Raised(outcome')]_vars

\* C3, amended: on a closed cursor execute, fetchone, fetchall, iteration
\* and close raise (CursorClosed, CursorAlreadyClosed for close); rowcount,
\* columns and description do not look at the closed flag and answer from
\* the cached result as on an open cursor.
C3_ClosedRejectsGuardedOperations ==
    [][closed =>
        /\ (lastOp' \in {"execute", "fetchone", "fetchall", "next"}
                => outcome' = Raise("CursorClosed"))
        /\ (lastOp' = "close" => outcome' = Raise("CursorAlreadyClosed"))
        /\ (lastOp' = "rowcount" /\ Truthy(response) => ReturnedValue(outcome'))
        /\ (lastOp' = "description" /\ Truthy(response) => ReturnedValue(outcome'))
        /\ (lastOp' = "columns" /\ Truthy(response) /\ response.hasDesc
                => ReturnedValue(outcome'))]_vars

\* iteration was rejected on a closed cursor that holds a cached result
C3_Witness ==
    /\ closed
    /\ lastOp = "next"
    /\ outcome = Raise("CursorClosed")
    /\ Truthy(response)

\* C4: an execute on an open cursor whose running flag is set raises
\* CursorAlreadyRunning, submits nothing, and leaves the statement, cached
\* result, fetch index and flags as they were.
C4_SingleInFlightStatement ==
    [][~closed /\ is_running /\ lastOp' = "execute"
         => /\ outcome' = Raise("CursorAlreadyRunning")
            /\ ~submitted'
            /\ lastRemote' = lastRemote
            /\ UNCHANGED cursorVars]_vars

\* an execute was rejected while an earlier statement was still in flight
C4_Witness ==
    /\ ~closed
    /\ is_running
    /\ statement.set
    /\ lastOp = "execute"
    /\ outcome = Raise("CursorAlreadyRunning")

\* the last call was an execute whose submission came back with state st
EndedIn(st) ==
    /\ ExecuteAnswered
    /\ ~lastRemote.raises
    /\ StateOf(lastRemote) = st

\* C5 as stated: an execute that ends with remote state ERROR raises
\* InternalException and leaves the cached result as it was before the call.
C5_ErrorKeepsCachedResult ==
    [][lastOp' = "execute" /\ submitted' /\ EndedIn(ERROR)'
         => /\ outcome' = Raise("InternalException")
            /\ response' = response]_vars

\* C5, amended: an execute that ends with remote state ERROR raises
\* InternalException and leaves the cursor with no cached result, whatever it
\* held before (_pre cleared it); rowcount and columns then return nothing.
C5_ErrorClearsCachedResult ==
    [][/\ (lastOp' = "execute" /\ submitted' /\ EndedIn(ERROR)'
             => /\ outcome' = Raise("InternalException")
                /\ response' = NoResponse
                /\ state' = "error")
       /\ (state = "error" /\ lastOp' \in {"rowcount", "columns"}
             => ReturnedNone(outcome'))]_vars

\* an execute called on a cursor that held a result ended in ERROR
C5_Witness ==
    /\ priorResult
    /\ EndedIn(ERROR)
    /\ outcome = Raise("InternalException")
    /\ response = NoResponse

\* C6: with state AVAILABLE and a status other than "ok", execute raises
\* DatabaseException when the error text does not contain "is not a view",
\* and returns without raising exactly when it contains it, at any offset.
C6_NotAViewSuppression ==
    (EndedIn(AVAILABLE) /\ lastRemote.status # "ok" /\ lastRemote.hasErr)
        => IF Contains(lastRemote.err, NotAView)
           THEN ReturnedNone(outcome)
           ELSE outcome = Raise("DatabaseException")

\* C7: with state AVAILABLE, status "ok" and a text payload that is missing
\* or whose first fragment is not JSON, execute returns None without raising
\* and the cursor has no cached result.
C7_ParseFailureSwallowed ==
    (/\ EndedIn(AVAILABLE)
     /\ lastRemote.status = "ok"
     /\ (~lastRemote.hasText \/ ~JsonLoads(FirstChunk(lastRemote.text)).ok))
        => /\ ReturnedNone(outcome)
           /\ response = NoResponse

\* a fetch that yields nothing: None or an empty list, or the end of the
\* iteration for __next__
YieldsNothing(op, o) ==
    IF op = "next" THEN o = Raise("StopIteration")
    ELSE ReturnedNone(o) \/ (ReturnedValue(o) /\ ValueOf(o) = <<>>)

\* C8: on an open cursor without a cached result fetchone, fetchall and
\* iteration, of GlueCursor and of GlueDictCursor, yield nothing and never
\* raise.
C8_FetchWithoutResultYieldsNothing ==
    [][~closed /\ ~Truthy(response) /\ lastOp' \in {"fetchone", "fetchall", "next"}
         => YieldsNothing(lastOp', outcome')]_vars

\* the i-th result row in positional form
ExpectedRow(i) == Ret(Project(response.results[i], response.desc))

C10_NoRewindAfterExhaustion ==
    \A j, k \in 1..Len(fetchLog) :
        (j < k /\ fetchLog[j] = RetNone) => fetchLog[k] = RetNone


\* the last entry of the fetch log: what the GlueCursor.fetchone call of the
\* step just taken returned
LastFetched(log) == log[Len(log)]

\* C11: iterating an open cursor over a cached result (with its description
\* list) yields the row fetchone returns whenever fetchone returns one, and
\* ends only when fetchone returns None, also for rows whose positional form
\* is empty or all null.
C11_IterationYieldsEveryRow ==
    [][~closed /\ Truthy(response) /\ response.hasDesc /\ lastOp' = "next"
         => IF ReturnedValue(LastFetched(fetchLog'))
            THEN ReturnedValue(outcome')
            ELSE outcome' = Raise("StopIteration")]_vars

\* C12: with a cached result, rowcount is the number of rows of the payload
\* and fetchall returns a list of that length, for every payload.
C12_RowcountMatchesFetchAll ==
    [][~closed /\ Truthy(response) /\ lastOp' \in {"rowcount", "fetchall"}
         => IF lastOp' = "rowcount"
            THEN outcome' = Ret(Len(response.results))
            ELSE /\ ReturnedValue(outcome')
                 /\ Len(ValueOf(outcome')) = ValueOf(Rowcount(response))]_vars

\* every row of the cached result in positional form, in result order
AllRows(resp) ==
    [k \in 1..Len(resp.results) |-> Project(resp.results[k], resp.desc)]

ReKeys(m, cols, row) ==
    /\ DOMAIN m = Range(cols)
    /\ \A i \in 1..Len(cols) : m[cols[i]] = row[i]

\* C14: on a GlueDictCursor, fetchall returns one mapping per row of
\* GlueCursor.fetchall, in order, each re-keying the positional row by the
\* column names; fetchone returns such a mapping whenever GlueCursor.fetchone
\* returns a row.
C14_DictCursorReKeysRows ==
    [][isDict /\ ~closed /\ Truthy(response) /\ response.hasDesc
         => /\ (lastOp' = "fetchone" /\ ReturnedValue(LastFetched(fetchLog'))
                  => /\ ReturnedValue(outcome')
                     /\ ReKeys(ValueOf(outcome'), response.desc,
                               ValueOf(LastFetched(fetchLog'))))
            /\ (lastOp' = "fetchall"
                  => /\ ReturnedValue(outcome')
                     /\ Len(ValueOf(outcome')) = Len(response.results)
                     /\ \A k \in 1..Len(response.results) :
                           ReKeys(ValueOf(outcome')[k], response.desc,
                                  AllRows(response)[k]))]_vars

\* C15: an execute that ends with remote state CANCELLING or CANCELLED raises
\* DatabaseException, and the statement identifier its message interpolates
\* is an identifier, not None.
C15_CancelledNamesStatement ==
    (EndedIn(CANCELLING) \/ EndedIn(CANCELLED))
        => /\ outcome = Raise("DatabaseException")
           /\ statement_id # "None"

\* C16: on a cached result whose payload has no description list, columns
\* and description return None or an empty list, and fetchone and fetchall
\* do not raise.
C16_MissingDescriptionIsHarmless ==
    [][~closed /\ Truthy(response) /\ ~response.hasDesc
         => /\ (lastOp' \in {"columns", "description"}
                  => ReturnedNone(outcome') \/
                     (ReturnedValue(outcome') /\ ValueOf(outcome') = <<>>))
            /\ (lastOp' \in {"fetchone", "fetchall"} => Returned(outcome'))]_vars

\* the remote states on which execute calls _post
TerminalStates == {AVAILABLE, ERROR, CANCELLING, CANCELLED}

\* the step is an execute that submitted and got an answer with a terminal
\* state (primed: evaluated on the step's second state)
AnsweredTerminal ==
    /\ lastOp = "execute"
    /\ submitted
    /\ ~lastRemote.raises
    /\ StateOf(lastRemote) \in TerminalStates

\* C19: an execute whose answer has state AVAILABLE (any status), ERROR,
\* CANCELLING or CANCELLED leaves the running flag reset, whether it returns
\* or raises, and an execute on an open cursor whose flag is reset is never
\* rejected with CursorAlreadyRunning.
C19_TerminalPathsResetRunning ==
    [][/\ (AnsweredTerminal' => ~is_running')
       /\ (~is_running /\ ~closed /\ lastOp' = "execute"
             => outcome' # Raise("CursorAlreadyRunning"))
       /\ (~is_running /\ ~(lastOp' = "execute" /\ submitted') => ~is_running')]_vars

\* an execute was submitted on a cursor whose previous execute had ended in
\* ERROR (self.state is still "error" because this submission raised)
C19_Witness ==
    /\ state = "error"
    /\ lastOp = "execute"
    /\ submitted
    /\ lastRemote.raises

\* the step is an execute whose submission raised or came back with a state
\* other than the terminal ones
AnsweredNonTerminal ==
    /\ lastOp = "execute"
    /\ submitted
    /\ (lastRemote.raises \/ StateOf(lastRemote) \notin TerminalStates)

\* C20 as stated: once an execute ended on a non-terminal answer the flag
\* stays set and every later execute raises CursorAlreadyRunning.
C20_RunningForEver ==
    [][/\ (AnsweredNonTerminal' => is_running' /\ response' = NoResponse)
       /\ (is_running => /\ is_running'
                         /\ (lastOp' = "execute"
                               => outcome' = Raise("CursorAlreadyRunning")))]_vars

\* C20, amended: once an execute ended on a non-terminal answer (WAITING,
\* RUNNING, no state, or a raising submission) the flag stays set and the
\* result absent under every operation, and every later execute is rejected:
\* with CursorAlreadyRunning while the cursor is open, with CursorClosed once
\* it is closed.
C20_RunningUntilClosed ==
    [][/\ (AnsweredNonTerminal' => is_running' /\ response' = NoResponse)
       /\ (is_running
             => /\ is_running'
                /\ response' = NoResponse
                /\ (lastOp' = "execute"
                      => /\ ~submitted'
                         /\ outcome' = IF closed THEN Raise("CursorClosed")
                                       ELSE Raise("CursorAlreadyRunning")))]_vars

\* an execute was rejected on a closed cursor whose statement never left
\* the RUNNING state
C20_Witness ==
    /\ is_running
    /\ closed
    /\ StateOf(lastRemote) = RUNNING
    /\ lastOp = "execute"
    /\ outcome = Raise("CursorClosed")


\* the last call was an execute that got past the closed and running tests,
\* so that it examined sqlArg
ExecuteExamined ==
    /\ lastOp = "execute"
    /\ outcome \notin {Raise("CursorClosed"), Raise("CursorAlreadyRunning")}

\* 0-based offset just behind the first "*/" that follows the opening "/*",
\* -1 when the header is not closed
HeaderEnd(s) ==
    LET k == Find(Drop(s, 2), <<"*", "/">>)
    IN  IF k = -1 THEN -1 ELSE k + 4

\* C17: an execute called with a text that begins with a closed /* ... */
\* header does not raise on the header and submits the text behind the
\* closing "*/" (less the newline that ends the header line), whatever
\* follows the "*/"; a text that does not begin with "/*" is submitted as it is.
C17_HeaderRemoved ==
    ExecuteExamined
        => IF ~StartsWithHeader(sqlArg)
           THEN submitted /\ sql = sqlArg
           ELSE HeaderEnd(sqlArg) # -1
                  => /\ outcome # Raise("ValueError")
                     /\ submitted
                     /\ LET rest == Drop(sqlArg, HeaderEnd(sqlArg))
                        IN  sql = IF IsPrefix(<<NL>>, rest) THEN Tail(rest) ELSE rest

\* the submitted code is the wrapper around the text
Wrapped(text, c) == c = WrapPrefix \o text \o WrapSuffix

\* C18 as stated: the submitted code is the wrapper around the header-stripped
\* text when that text holds no script marker; when it holds one the code
\* holds no marker and is not wrapped.
C18_MarkerNeverSubmitted ==
    ExecuteExamined /\ submitted
        => /\ statement.code = code
           /\ IF Contains(sql, PysparkMarker)
              THEN ~Contains(code, PysparkMarker) /\ ~IsPrefix(WrapPrefix, code)
              ELSE Wrapped(sql, code)

\* text without the markers met in one pass from left to right; what the
\* removal of a marker brings together is not looked at again
RECURSIVE WithoutMarkers(_)
WithoutMarkers(s) ==
    IF s = <<>> THEN <<>>
    ELSE IF IsPrefix(PysparkMarker, s) THEN WithoutMarkers(Drop(s, Len(PysparkMarker)))
    ELSE <<Head(s)>> \o WithoutMarkers(Tail(s))

\* C18, amended: the submitted code is the wrapper around the header-stripped
\* text when that text holds no script marker; when it holds one the code is
\* the de-indented text without the markers met in one pass from left to
\* right, and is not wrapped.  Exactly one of the two forms is submitted.
C18_WrapOrScript ==
    ExecuteExamined /\ submitted
        => /\ statement.code = code
           /\ IF Contains(sql, PysparkMarker)
              THEN /\ code = Dedent(WithoutMarkers(sql))
                   /\ ~IsPrefix(WrapPrefix, code)
                   /\ ~Wrapped(sql, code)
              ELSE Wrapped(sql, code)

\* a script whose marker encloses a marker was submitted: the code is the
\* marker the removal put together
C18_Witness ==
    /\ ExecuteExamined
    /\ submitted
    /\ sql = MarkerHead \o PysparkMarker \o MarkerTail
    /\ code = PysparkMarker
    /\ statement.code = code

====
